---- MODULE Spec2Model ----
(***************************************************************************)
(* CodeSprints/RasterData_101.ipynb: a notebook session that reads a DEM   *)
(* and NAIP imagery with rasterio and derives rasters with numpy.          *)
(*                                                                         *)
(* Numbers.  Elevations in metres are integers.  A value in feet is an     *)
(* integer count of 1/FactorDen feet, so that metres * 3.28084 is exact:   *)
(* 3.28084 = FactorNum / FactorDen.  The float type has a largest finite   *)
(* magnitude FloatMax; a product beyond it is +-infinity (PosInf, NegInf), *)
(* as IEEE arithmetic gives.  Band values of imagery are fixed-width       *)
(* integers that wrap.  A quotient is the exact pair [n, d].               *)
(***************************************************************************)
EXTENDS Integers, Sequences, FiniteSets, TLC

VARIABLES files, handles, ns, pc, out, err, tasks

vars == <<files, handles, ns, pc, out, err, tasks>>

----------------------------------------------------------------------------
(* Bounds of the model *)

\* cells of a raster in the general specifications
NCells == 3
\* largest finite magnitude of the model's float type (in metres / feet)
FloatMax == 40000
\* longest boundary sequence given to np.digitize
MaxBins == 3

(* Program constants *)

\* metres to feet, 3.28084 = 82021 / 25000
FactorNum == 82021
FactorDen == 25000
\* class_bins = [dem_feet.min(), 5642, np.inf]
Waterline == 5642

PosInf == FloatMax * FactorDen + 1
NegInf == 0 - PosInf

----------------------------------------------------------------------------
(* numpy arrays.  An array is [data, mask]; a plain ndarray excludes no    *)
(* cell, a numpy.ma.MaskedArray excludes the cells whose mask is TRUE.     *)

Nd(d) == [data |-> d, mask |-> [i \in DOMAIN d |-> FALSE]]

Cells(a) == DOMAIN a.data

Valid(a) == {i \in Cells(a) : ~a.mask[i]}

MinOf(S) == CHOOSE x \in S : \A y \in S : x <= y
MaxOf(S) == CHOOSE x \in S : \A y \in S : x >= y

\* a.min(): the reduction ranges over the cells the mask does not exclude
MaMin(a) == MinOf({a.data[i] : i \in Valid(a)})

MaMaxSkipsLast(a) == MaxOf({a.data[i] : i \in Valid(a) \ {Len(a.data)}} \cup {NegInf})

\* a.max()
MaMax(a) == MaxOf({a.data[i] : i \in Valid(a)})

MaskedWhereKeepsOldMask(cond, a) == [data |-> a.data, mask |-> a.mask]

\* np.ma.masked_where(condition, a, copy=True): a copy of a that also
\* excludes every cell where condition holds
MaskedWhere(cond, a) ==
    [data |-> a.data,
     mask |-> [i \in Cells(a) |-> cond[i] \/ a.mask[i]]]

\* float product of a metre value with the conversion factor
FMul(m) ==
    LET limit == (FloatMax * FactorDen) \div FactorNum
    IN  IF m > limit THEN PosInf
        ELSE IF m < 0 - limit THEN NegInf
        ELSE m * FactorNum

\* Task 2, dem_feet = dem_data * 3.28084.  On a masked array the product
\* keeps the mask, and an excluded cell keeps the data it had.
Convert(a) ==
    [data |-> [i \in Cells(a) |-> IF a.mask[i] THEN a.data[i] ELSE FMul(a.data[i])],
     mask |-> a.mask]

----------------------------------------------------------------------------
(* np.digitize(x, bins), right=False *)

Ascending(b) == \A i \in 1..(Len(b) - 1) : b[i] <= b[i + 1]
Descending(b) == \A i \in 1..(Len(b) - 1) : b[i] >= b[i + 1]

Monotonicity(b) == IF Ascending(b) THEN 1 ELSE IF Descending(b) THEN 0 - 1 ELSE 0

Reverse(b) == [i \in 1..Len(b) |-> b[Len(b) + 1 - i]]

RECURSIVE BisectRight(_, _, _, _)
\* np.searchsorted(b, v, side='right') on b[lo+1..hi]
BisectRight(b, v, lo, hi) ==
    IF lo >= hi THEN lo
    ELSE LET mid == (lo + hi) \div 2
         IN  IF b[mid + 1] <= v THEN BisectRight(b, v, mid + 1, hi)
             ELSE BisectRight(b, v, lo, mid)

RECURSIVE BisectLeft(_, _, _, _)
\* np.searchsorted(b, v, side='left')
BisectLeft(b, v, lo, hi) ==
    IF lo >= hi THEN lo
    ELSE LET mid == (lo + hi) \div 2
         IN  IF b[mid + 1] < v THEN BisectLeft(b, v, mid + 1, hi)
             ELSE BisectLeft(b, v, lo, mid)

DigitizeValueSideLeft(v, b) == BisectLeft(b, v, 0, Len(b))

DigitizeValueReversed(v, b) == Len(b) - BisectRight(Reverse(b), v, 0, Len(b))

\* the label of one value; b is monotonic
DigitizeValue(v, b) ==
    IF Monotonicity(b) = 0 - 1
    THEN Len(b) - BisectRight(Reverse(b), v, 0, Len(b))
    ELSE BisectRight(b, v, 0, Len(b))

\* np.digitize works on np.asarray(x): the mask of x is dropped, every cell
\* is classified by the data it holds, and the result is a plain ndarray
Digitize(a, b) == Nd([i \in Cells(a) |-> DigitizeValue(a.data[i], b)])

\* np.unique(a)
Unique(a) == {a.data[i] : i \in Cells(a)}

----------------------------------------------------------------------------
(* rasterio.  A file is [bands, nodata, dtype]: one sequence of cell values *)
(* per band, the declared no-data value and the sample type.               *)

ReadBandUnmasked(f, b, masked) == Nd(f.bands[b])

\* DatasetReader.read(b, masked=...): band b as a plain ndarray, or as a
\* masked array that excludes the cells holding the file's no-data value
ReadBand(f, b, masked) ==
    IF masked
    THEN [data |-> f.bands[b],
          mask |-> [i \in DOMAIN f.bands[b] |-> f.bands[b][i] = f.nodata]]
    ELSE Nd(f.bands[b])

\* DatasetReader.read(): every band, unmasked, in the file's sample type
ReadAll(f) == [bands |-> f.bands, dtype |-> f.dtype]

\* DatasetReader.profile
Profile(f) == [count |-> Len(f.bands), cells |-> Len(f.bands[1]),
               nodata |-> f.nodata, dtype |-> f.dtype]

BandOffByOne(img, k) == [data |-> img.bands[k], dtype |-> img.dtype]

\* naip_pre_fire[k]: band k (counted from 0) of a multi-band array
Band(img, k) == [data |-> img.bands[k + 1], dtype |-> img.dtype]

----------------------------------------------------------------------------
(* Integer arithmetic of a fixed-width sample type, and quotients *)

Wrap(dtype, x) ==
    IF dtype = "uint8" THEN x % (2 ^ 8)
    ELSE ((x + 2 ^ 15) % (2 ^ 16)) - 2 ^ 15

Abs(x) == IF x < 0 THEN 0 - x ELSE x

\* the quotient n / d lies in [-1, 1]
InUnitRange(q) == Abs(q.n) <= Abs(q.d)

IsZero(q) == q.n = 0

QAdd(x, y) == [n |-> x.n * y.d + y.n * x.d, d |-> x.d * y.d]

\* x - y on quotients
QSub(x, y) == [n |-> x.n * y.d - y.n * x.d, d |-> x.d * y.d]

\* Task 6, NDVI = (NIR - Red) / (NIR + Red) on the band arrays, with the
\* cells whose denominator is 0 excluded: the operands are arrays of the
\* file's sample type, so the difference and the sum wrap
Ndvi(nir, red) ==
    LET num(i) == Wrap(nir.dtype, nir.data[i] - red.data[i])
        den(i) == Wrap(nir.dtype, nir.data[i] + red.data[i])
    IN  [data |-> [i \in DOMAIN nir.data |->
                      IF den(i) = 0 THEN [n |-> 0, d |-> 1]
                      ELSE [n |-> num(i), d |-> den(i)]],
         mask |-> [i \in DOMAIN nir.data |-> den(i) = 0]]

\* numpy broadcasting of two one-axis shapes
Broadcastable(a, b) ==
    Len(a.data) = Len(b.data) \/ Len(a.data) = 1 \/ Len(b.data) = 1

\* Task 8, the change in NDVI: a - b cell by cell; a cell is excluded when
\* it is excluded in either operand and then keeps the data of a
MaSub(a, b) ==
    LET n  == IF Len(a.data) >= Len(b.data) THEN Len(a.data) ELSE Len(b.data)
        ia(i) == IF Len(a.data) = 1 THEN 1 ELSE i
        ib(i) == IF Len(b.data) = 1 THEN 1 ELSE i
        m(i) == a.mask[ia(i)] \/ b.mask[ib(i)]
    IN  [data |-> [i \in 1..n |-> IF m(i) THEN a.data[ia(i)]
                                  ELSE QSub(a.data[ia(i)], b.data[ib(i)])],
         mask |-> [i \in 1..n |-> m(i)]]

\* not a number: the float product of an infinity and 0
NaN == PosInf + 1

\* float product x * y, y a small integer
FProd(x, y) ==
    IF x = NaN THEN NaN
    ELSE IF x \in {PosInf, NegInf}
    THEN (IF y = 0 THEN NaN ELSE IF y > 0 THEN x ELSE 0 - x)
    ELSE IF y = 0 THEN 0
    ELSE IF Abs(x) > (PosInf - 1) \div Abs(y)
    THEN (IF (x > 0) = (y > 0) THEN PosInf ELSE NegInf)
    ELSE x * y

\* Task 4, water_mask: the classified raster with every cell whose label is
\* not the target excluded; the kept cells hold the target label
MakeMask(classified, label) ==
    MaskedWhere([i \in Cells(classified) |-> classified.data[i] # label], classified)

\* Task 5, water_masked_DEM = dem * water_mask: a cell is excluded when it
\* is excluded in either operand and then keeps the data of the raster
MaMul(a, b) ==
    LET m(i) == a.mask[i] \/ b.mask[i]
    IN  [data |-> [i \in Cells(a) |-> IF m(i) THEN a.data[i]
                                      ELSE FProd(a.data[i], b.data[i])],
         mask |-> [i \in Cells(a) |-> m(i)]]

----------------------------------------------------------------------------
(* The kernel's namespace: ns maps each assigned name to its value; a name  *)
(* that no cell has assigned is not in DOMAIN ns, and reading it raises    *)
(* NameError.                                                              *)

Defined(name) == name \in DOMAIN ns

Bind(name, val) == (name :> val) @@ ns

Raise(cell, what) == err' = err \cup {[cell |-> cell, error |-> what]}

At(step) == pc = [cell |-> 0, step |-> step]

Goto(step) == pc' = [cell |-> 0, step |-> step]

NoSession == files = <<>> /\ handles = <<>> /\ out = <<>> /\ err = {} /\ tasks = "blank"

----------------------------------------------------------------------------
(* The transforms as pure functions of their inputs *)

SampleMetres == {0 - FloatMax, 0 - 9999, 0, 1000, 1800}
SampleValues == {999, 1000, 1003, 1005, PosInf}
SampleBounds == {NegInf, 1000, 1005, PosInf}
SampleFeet == {NegInf, 0, 5000 * FactorDen, 6000 * FactorDen}
SampleLabels == {0, 1, 2}
SampleIndex == {[n |-> 0 - 100, d |-> 100], [n |-> 0, d |-> 200], [n |-> 100, d |-> 100]}
ImgCells == 2

SeqsUpTo(S, n) == UNION {[1..k -> S] : k \in 1..n}

SampleImages ==
    {[bands |-> <<red, [i \in 1..ImgCells |-> 1], [i \in 1..ImgCells |-> 2], nir>>, nodata |-> 0 - 1, dtype |-> "uint8"] :
        red \in [1..ImgCells -> {0, 56, 100, 200}],
        nir \in [1..ImgCells -> {0, 56, 100, 200}]}
    \cup
    {[bands |-> <<red, [i \in 1..ImgCells |-> 1], [i \in 1..ImgCells |-> 2], nir>>, nodata |-> 0 - 1, dtype |-> "int16"] :
        red \in [1..ImgCells -> {0, 100, 20000}],
        nir \in [1..ImgCells -> {0, 100, 20000}]}

SampleIndexRasters ==
    UNION {{[data |-> d, mask |-> m] : d \in [1..k -> SampleIndex], m \in [1..k -> BOOLEAN]} :
             k \in 1..ImgCells}

\* an index raster one cell longer than any in SampleIndexRasters
WiderIndexRaster ==
    [data |-> [i \in 1..(ImgCells + 1) |-> [n |-> 0, d |-> 200]],
     mask |-> [i \in 1..(ImgCells + 1) |-> FALSE]]

FnInit ==
    /\ NoSession
    /\ \/ /\ At("mask")
          /\ \E d \in [1..NCells -> SampleMetres], m \in [1..NCells -> BOOLEAN] :
                 ns = [R |-> Nd(d), M |-> m]
       \/ /\ At("digitize")
          /\ \E d \in [1..NCells -> SampleValues], b \in SeqsUpTo(SampleBounds, MaxBins) :
                 ns = [dem_feet |-> Nd(d), class_bins |-> b]
       \/ /\ At("make_mask")
          /\ \E d \in [1..NCells -> SampleFeet], l \in [1..NCells -> SampleLabels],
                ma \in BOOLEAN :
                 ns = [dem_feet |-> IF ma THEN MaskedWhere([i \in 1..NCells |-> d[i] = NegInf], Nd(d))
                                    ELSE Nd(d),
                       dem_waterline |-> Nd(l)]
       \/ /\ At("select_bands")
          /\ \E f \in SampleImages : ns = [naip_pre_fire |-> ReadAll(f)]
       \/ /\ At("diff")
          /\ \E a \in SampleIndexRasters, b \in SampleIndexRasters \cup {WiderIndexRaster} :
                 ns = [NDVI_pre |-> a, NDVI_post |-> b]

\* mask(R, M): np.ma.masked_where(M, R)
FnMask ==
    /\ At("mask")
    /\ ns' = Bind("dem_data", MaskedWhere(ns.M, ns.R))
    /\ Goto("convert")
    /\ UNCHANGED <<files, handles, out, err, tasks>>

\* Task 2: dem_feet = dem_data * 3.28084
FnConvert ==
    /\ At("convert")
    /\ ns' = Bind("dem_feet", Convert(ns.dem_data))
    /\ Goto("converted")
    /\ UNCHANGED <<files, handles, out, err, tasks>>

\* dem_waterline = np.digitize(dem_feet, class_bins)
FnDigitize ==
    /\ At("digitize")
    /\ \/ /\ Monotonicity(ns.class_bins) # 0
          /\ ns' = Bind("dem_waterline", Digitize(ns.dem_feet, ns.class_bins))
          /\ Goto("digitized")
          /\ UNCHANGED err
       \/ /\ Monotonicity(ns.class_bins) = 0
          /\ Raise(0, "ValueError")
          /\ Goto("failed")
          /\ UNCHANGED ns
    /\ UNCHANGED <<files, handles, out, tasks>>

\* Task 4: water_mask
FnMakeMask ==
    /\ At("make_mask")
    /\ ns' = Bind("water_mask", MakeMask(ns.dem_waterline, 1))
    /\ Goto("apply_mask")
    /\ UNCHANGED <<files, handles, out, err, tasks>>

\* Task 5: water_masked_DEM = dem_feet * water_mask
FnApplyMask ==
    /\ At("apply_mask")
    /\ ns' = Bind("water_masked_DEM", MaMul(ns.dem_feet, ns.water_mask))
    /\ Goto("mask_applied")
    /\ UNCHANGED <<files, handles, out, err, tasks>>

\* red_pre_fire = naip_pre_fire[0]; NIR_pre_fire = naip_pre_fire[3]
FnSelectBands ==
    /\ At("select_bands")
    /\ ns' = ("red_pre_fire" :> Band(ns.naip_pre_fire, 0)) @@
             ("NIR_pre_fire" :> Band(ns.naip_pre_fire, 3)) @@ ns
    /\ Goto("ndvi")
    /\ UNCHANGED <<files, handles, out, err, tasks>>

\* Task 6: NDVI_pre
FnNdvi ==
    /\ At("ndvi")
    /\ ns' = Bind("NDVI_pre", Ndvi(ns.NIR_pre_fire, ns.red_pre_fire))
    /\ Goto("ndvi_done")
    /\ UNCHANGED <<files, handles, out, err, tasks>>

\* Task 8: the change in NDVI
FnDiff ==
    /\ At("diff")
    /\ \/ /\ Broadcastable(ns.NDVI_pre, ns.NDVI_post)
          /\ ns' = Bind("NDVI_change", MaSub(ns.NDVI_post, ns.NDVI_pre))
          /\ Goto("diff_done")
          /\ UNCHANGED err
       \/ /\ ~Broadcastable(ns.NDVI_pre, ns.NDVI_post)
          /\ Raise(0, "ValueError")
          /\ Goto("failed")
          /\ UNCHANGED ns
    /\ UNCHANGED <<files, handles, out, tasks>>

FnNext ==
    \/ FnMask
    \/ FnConvert
    \/ FnDigitize
    \/ FnMakeMask
    \/ FnApplyMask
    \/ FnSelectBands
    \/ FnNdvi
    \/ FnDiff

SpecFn == FnInit /\ [][FnNext]_vars

----------------------------------------------------------------------------
(* Claims about the transforms *)

\* the float product of the metre value m with 3.28084 is the feet value f
IsScaled(m, f) ==
    LET limit == (FloatMax * FactorDen) \div FactorNum
    IN  IF m > limit THEN f = PosInf
        ELSE IF m < 0 - limit THEN f = NegInf
        ELSE f % FactorNum = 0 /\ f \div FactorNum = m

\* C1: unit conversion is linear and mask-preserving: the converted raster
\* excludes exactly the cells the mask M excludes, every other cell holds
\* R[i] * factor, and no excluded cell becomes a non-excluded value.
C1_ConvertLinearMaskPreserving ==
    At("converted") =>
        \A i \in 1..Len(ns.R.data) :
            /\ ns.dem_feet.mask[i] = ns.M[i]
            /\ ~ns.M[i] => IsScaled(ns.R.data[i], ns.dem_feet.data[i])

C1_Witness ==
    /\ At("converted")
    /\ \E i, j \in 1..Len(ns.R.data) :
          /\ ns.M[i] /\ ns.dem_feet.mask[i]
          /\ ~ns.M[j] /\ ns.R.data[j] = 1000 /\ ns.dem_feet.data[j] = 1000 * FactorNum

\* the index (counted from 0) of the first boundary of b that v is strictly
\* less than, Len(b) when there is none
FirstAbove(v, b) ==
    IF \E k \in 1..Len(b) : v < b[k]
    THEN MinOf({k \in 1..Len(b) : v < b[k]}) - 1
    ELSE Len(b)

\* C3: np.digitize labels each value with the index of the first boundary it
\* is strictly less than: 0 exactly below the first boundary, k when
\* B[k-1] <= v < B[k], len(B) at or above the last boundary.
C3_DigitizeFirstBoundaryAbove ==
    (At("digitized") /\ Ascending(ns.class_bins)) =>
        \A i \in Cells(ns.dem_feet) :
            LET v == ns.dem_feet.data[i]
                l == ns.dem_waterline.data[i]
                b == ns.class_bins
            IN  /\ l = FirstAbove(v, b)
                /\ (l = 0) <=> (v < b[1])
                /\ (l = Len(b)) <=> (v >= b[Len(b)])
                /\ \A k \in 1..(Len(b) - 1) : (l = k) => (b[k] <= v /\ v < b[k + 1])

C3_Witness ==
    /\ At("digitized")
    /\ ns.class_bins = <<1000, 1005, PosInf>>
    /\ \E i, j, k \in Cells(ns.dem_feet) :
          /\ ns.dem_feet.data[i] = 999 /\ ns.dem_waterline.data[i] = 0
          /\ ns.dem_feet.data[j] = 1005 /\ ns.dem_waterline.data[j] = 2
          /\ ns.dem_feet.data[k] = PosInf /\ ns.dem_waterline.data[k] = 3

\* C4: reclassification is monotonic and total: for ascending boundaries,
\* v <= w gives digitize(v) <= digitize(w), and every value gets one label
\* in 0..len(B), without an error.
C4_DigitizeMonotonicTotal ==
    (~At("digitize") /\ Defined("class_bins") /\ Ascending(ns.class_bins)) =>
        /\ At("digitized") /\ err = {}
        /\ \A i \in Cells(ns.dem_feet) :
              ns.dem_waterline.data[i] \in 0..Len(ns.class_bins)
        /\ \A i, j \in Cells(ns.dem_feet) :
              ns.dem_feet.data[i] <= ns.dem_feet.data[j]
                  => ns.dem_waterline.data[i] <= ns.dem_waterline.data[j]

C4_Witness ==
    /\ At("digitized")
    /\ Ascending(ns.class_bins) /\ Len(ns.class_bins) = MaxBins
    /\ \E i, j \in Cells(ns.dem_feet) :
          /\ ns.dem_feet.data[i] < ns.dem_feet.data[j]
          /\ ns.dem_waterline.data[i] < ns.dem_waterline.data[j]

\* C5: multiplying a raster by the binary mask (1 on the water cells, no
\* data elsewhere) leaves every kept cell as it was and makes every other
\* cell no-data, neither zero nor an error.
C5_MaskApplication ==
    At("mask_applied") =>
        /\ err = {}
        /\ \A i \in Cells(ns.dem_feet) :
              IF ns.dem_waterline.data[i] = 1
              THEN /\ ~ns.water_mask.mask[i] /\ ns.water_mask.data[i] = 1
                   /\ ns.water_masked_DEM.mask[i] = ns.dem_feet.mask[i]
                   /\ ns.water_masked_DEM.data[i] = ns.dem_feet.data[i]
              ELSE /\ ns.water_mask.mask[i]
                   /\ ns.water_masked_DEM.mask[i]

C5_Witness ==
    /\ At("mask_applied")
    /\ \E i, j \in Cells(ns.dem_feet) :
          /\ ns.dem_waterline.data[i] = 1 /\ ~ns.water_masked_DEM.mask[i]
          /\ ns.water_masked_DEM.data[i] = 5000 * FactorDen
          /\ ns.dem_waterline.data[j] = 2 /\ ~ns.dem_feet.mask[j]
          /\ ns.water_masked_DEM.mask[j]

C7_DiffOfIdentical ==
    (At("diff_done") /\ ns.NDVI_pre = ns.NDVI_post) =>
        \A i \in Cells(ns.NDVI_pre) :
            /\ ns.NDVI_change.mask[i] = ns.NDVI_pre.mask[i]
            /\ ~ns.NDVI_pre.mask[i] => IsZero(ns.NDVI_change.data[i])

C7_Witness ==
    /\ At("diff_done") /\ ns.NDVI_pre = ns.NDVI_post
    /\ \E i, j \in Cells(ns.NDVI_pre) :
          /\ ns.NDVI_pre.mask[i] /\ ns.NDVI_change.mask[i]
          /\ ~ns.NDVI_pre.mask[j] /\ ~IsZero(ns.NDVI_pre.data[j])
          /\ ~ns.NDVI_change.mask[j] /\ IsZero(ns.NDVI_change.data[j])

----------------------------------------------------------------------------
(* The elevation pipeline on a masked read: read(1, masked=True), min and  *)
(* max, conversion to feet, reclassification with bins [1000, 1005, inf].  *)
(* ExampleFiles are the 3x3 grids of the example: the no-data value -9999   *)
(* in the corner (0,0), then eight distinct elevations of 1000..1008 in    *)
(* ascending order, 1000 and 1008 among them.                              *)

SampleNodata == {0 - 9999, 0 - FloatMax}

SampleDemFiles ==
    UNION {{[bands |-> <<d>>, nodata |-> nd, dtype |-> "float32"] :
               d \in [1..NCells -> {nd, 1500, 1800}]} : nd \in SampleNodata}

RECURSIVE Ramp(_, _, _)
\* the values lo..hi in ascending order, without the value skip
Ramp(lo, hi, skip) ==
    IF lo > hi THEN <<>>
    ELSE IF lo = skip THEN Ramp(lo + 1, hi, skip)
    ELSE <<lo>> \o Ramp(lo + 1, hi, skip)

ExampleFiles ==
    {[bands |-> <<(<<0 - 9999>> \o Ramp(1000, 1008, skip))>>,
      nodata |-> 0 - 9999, dtype |-> "float32"] : skip \in 1001..1007}

ExampleBins == <<1000, 1005, PosInf>>

Show(name, val) == (name :> val) @@ out

\* a.min(), a.max() as displayed; numpy gives the constant masked when
\* every cell is excluded
ShowMinMax(a) ==
    IF Valid(a) = {} THEN Show("masked", TRUE)
    ELSE ("min" :> MaMin(a)) @@ ("max" :> MaMax(a)) @@ out

ExInit ==
    /\ handles = <<>> /\ out = <<>> /\ err = {} /\ tasks = "blank" /\ ns = <<>>
    /\ At("ex_read")
    /\ \E f \in ExampleFiles \cup SampleDemFiles : files = [dem |-> f]

\* dtm_pre_arr = dem_src.read(1, masked=True)
ExRead ==
    /\ At("ex_read")
    /\ ns' = Bind("dtm_pre_arr", ReadBand(files.dem, 1, TRUE))
    /\ Goto("ex_minmax")
    /\ UNCHANGED <<files, handles, out, err, tasks>>

\* dtm_pre_arr.min(), dtm_pre_arr.max()
ExMinMax ==
    /\ At("ex_minmax")
    /\ out' = ShowMinMax(ns.dtm_pre_arr)
    /\ Goto("ex_convert")
    /\ UNCHANGED <<files, handles, ns, err, tasks>>

\* Task 2 on the masked raster
ExConvert ==
    /\ At("ex_convert")
    /\ ns' = Bind("dem_feet", Convert(ns.dtm_pre_arr))
    /\ Goto("ex_minmax_feet")
    /\ UNCHANGED <<files, handles, out, err, tasks>>

\* dem_feet.min(), dem_feet.max()
ExMinMaxFeet ==
    /\ At("ex_minmax_feet")
    /\ out' = ShowMinMax(ns.dem_feet)
    /\ Goto("ex_reclassify")
    /\ UNCHANGED <<files, handles, ns, err, tasks>>

\* np.digitize(raster, class_bins) on the masked raster in metres
ExReclassify ==
    /\ At("ex_reclassify")
    /\ ns' = ("class_bins" :> ExampleBins) @@
             ("dem_waterline" :> Digitize(ns.dtm_pre_arr, ExampleBins)) @@ ns
    /\ Goto("ex_unique")
    /\ UNCHANGED <<files, handles, out, err, tasks>>

\* print(np.unique(dem_waterline))
ExUnique ==
    /\ At("ex_unique")
    /\ out' = Show("unique", Unique(ns.dem_waterline))
    /\ Goto("ex_done")
    /\ UNCHANGED <<files, handles, ns, err, tasks>>

ExNext ==
    \/ ExRead
    \/ ExMinMax
    \/ ExConvert
    \/ ExMinMaxFeet
    \/ ExReclassify
    \/ ExUnique

SpecExample == ExInit /\ [][ExNext]_vars

IsExample == files.dem \in ExampleFiles

\* C2: after a masked read every cell holding the no-data value is excluded
\* and min and max range over the other cells only; in the example the
\* minimum is 1000, never the sentinel.
C2_MaskedReadReductions ==
    /\ Defined("dtm_pre_arr") =>
          \A i \in Cells(ns.dtm_pre_arr) :
              (files.dem.bands[1][i] = files.dem.nodata) => ns.dtm_pre_arr.mask[i]
    /\ (At("ex_convert") /\ Valid(ns.dtm_pre_arr) # {}) =>
          /\ \E i \in Valid(ns.dtm_pre_arr) : out.min = files.dem.bands[1][i]
          /\ \E i \in Valid(ns.dtm_pre_arr) : out.max = files.dem.bands[1][i]
          /\ \A i \in Valid(ns.dtm_pre_arr) :
                out.min <= files.dem.bands[1][i] /\ files.dem.bands[1][i] <= out.max
          /\ out.min # files.dem.nodata
    /\ (At("ex_convert") /\ IsExample) => out.min = 1000

C2_Witness ==
    /\ At("ex_convert") /\ IsExample
    /\ ns.dtm_pre_arr.data[1] = 0 - 9999 /\ ns.dtm_pre_arr.mask[1]
    /\ out.min = 1000

CountOf(a, label) == Cardinality({i \in Cells(a) : a.data[i] = label})

\* C9 as stated: in the example, bins [1000, 1005, inf] label exactly two
\* cells, those with value >= 1005, as class 2 and the other non-masked
\* cells as class 1, and the masked corner stays masked, not class 0.
C9_AsStated ==
    (At("ex_done") /\ IsExample) =>
        /\ CountOf(ns.dem_waterline, 2) = 2
        /\ \A i \in Valid(ns.dtm_pre_arr) :
              ns.dem_waterline.data[i] = IF ns.dtm_pre_arr.data[i] >= 1005 THEN 2 ELSE 1
        /\ ns.dem_waterline.mask[1]
        /\ 0 \notin out.unique

\* C9 amended: in the example, bins [1000, 1005, inf] label exactly the cells
\* with value >= 1005 as class 2 (three or four cells), the other non-masked
\* cells as class 1, and the corner, masked in the input, is class 0 in the
\* classified raster, which excludes no cell.
C9_ExampleReclassified ==
    (At("ex_done") /\ IsExample) =>
        /\ CountOf(ns.dem_waterline, 2) \in {3, 4}
        /\ \A i \in Valid(ns.dtm_pre_arr) :
              ns.dem_waterline.data[i] = IF ns.dtm_pre_arr.data[i] >= 1005 THEN 2 ELSE 1
        /\ ns.dtm_pre_arr.mask[1] /\ ns.dem_waterline.data[1] = 0
        /\ \A i \in Cells(ns.dem_waterline) : ~ns.dem_waterline.mask[i]
        /\ out.unique = {0, 1, 2}

C9_Witness ==
    /\ At("ex_done") /\ IsExample
    /\ ns.dem_waterline.data[1] = 0
    /\ \E i \in Cells(ns.dtm_pre_arr) :
          ns.dtm_pre_arr.data[i] = 1005 /\ ns.dem_waterline.data[i] = 2
    /\ CountOf(ns.dem_waterline, 2) = 3

\* |f - tenths / 10 feet| <= 0.05 feet: f shows as tenths / 10
ShowsAs(f, tenths) == Abs(10 * f - tenths * FactorDen) * 2 <= FactorDen

\* C10 as stated: in the example the maximum after the conversion is
\* 1008 * 3.28084, approximately 3309.2.
C10_AsStated ==
    (At("ex_reclassify") /\ IsExample) =>
        /\ out.max = 1008 * FactorNum
        /\ ShowsAs(out.max, 33092)

\* C10 amended: in the example the maximum after the conversion is
\* 1008 * 3.28084 = 3307.08672, approximately 3307.1.
C10_ExampleMaxFeet ==
    (At("ex_reclassify") /\ IsExample) =>
        /\ out.max = 1008 * FactorNum
        /\ out.max * 4 = 330708672
        /\ ShowsAs(out.max, 33071)
        /\ ns.dem_feet.mask[1]

C10_Witness ==
    /\ At("ex_reclassify") /\ IsExample
    /\ ns.dem_feet.data[Len(ns.dem_feet.data)] = out.max
    /\ out.max = 1008 * FactorNum

----------------------------------------------------------------------------
(* The notebook session: the code cells run once each, top to bottom.  A   *)
(* cell that raises is abandoned and the session goes on with the next     *)
(* cell.  tasks says whether the Task cells are blank, as in the notebook, *)
(* or hold the student's answers.  A file is ok, missing (rio.open raises), *)
(* corrupt (read raises inside the scope) or absent: its data set has not  *)
(* been downloaded yet.                                                    *)

OnDisk(f, status) ==
    [bands |-> f.bands, nodata |-> f.nodata, dtype |-> f.dtype, status |-> status]

Image(n, red, nir) ==
    [bands |-> <<[i \in 1..n |-> red], [i \in 1..n |-> 1], [i \in 1..n |-> 2],
                 [i \in 1..n |-> nir]>>,
     nodata |-> 0 - 1, dtype |-> "uint8"]

SessionDemFiles ==
    {OnDisk(f, "ok") : f \in SampleDemFiles}
    \cup {OnDisk(CHOOSE f \in ExampleFiles : TRUE, st) : st \in {"missing", "corrupt", "absent"}}

SessionPreImages ==
    {OnDisk(Image(ImgCells, 0, 0), "ok"), OnDisk(Image(ImgCells, 56, 0), "ok"),
     OnDisk(Image(ImgCells, 100, 200), "ok"),
     OnDisk(Image(ImgCells, 100, 200), "missing"),
     OnDisk(Image(ImgCells, 100, 200), "corrupt"),
     OnDisk(Image(ImgCells, 100, 200), "absent")}

With(cell, task, handle, file, body) ==
    [cell |-> cell, kind |-> "with", task |-> task, handle |-> handle, file |-> file,
     body |-> body, reads |-> {}]

Run(cell, task, kind, reads) ==
    [cell |-> cell, kind |-> kind, task |-> task, handle |-> "", file |-> "",
     body |-> <<>>, reads |-> reads]

Stmt(op, target) == [op |-> op, target |-> target]

\* the code cells, by their index in the notebook; task is the number of
\* the Task whose answer the entry is, 0 for code the notebook holds
Program == <<
    Run(2, 0, "get_data", {}),
    With(4, 0, "dem_src", "dem", <<Stmt("read", "dtm_pre_arr")>>),
    Run(6, 0, "use", {"dtm_pre_arr"}),
    Run(7, 0, "use", {"dtm_pre_arr"}),
    Run(9, 0, "use", {"dtm_pre_arr"}),
    Run(11, 0, "minmax", {"dtm_pre_arr"}),
    Run(12, 0, "use", {"dtm_pre_arr"}),
    With(15, 0, "dem_src", "dem", <<Stmt("read_masked", "dtm_pre_arr")>>),
    Run(17, 0, "use", {"dtm_pre_arr"}),
    Run(19, 0, "use", {"dtm_pre_arr"}),
    With(22, 0, "dem_src", "dem", <<Stmt("read_masked", "lidar_dem_im")>>),
    Run(22, 0, "use", {"lidar_dem_im"}),
    With(24, 0, "dem_src", "dem",
         <<Stmt("read_masked", "lidar_dem_im"), Stmt("profile", "lidar_dem_meta")>>),
    Run(24, 0, "use", {"lidar_dem_meta"}),
    With(30, 0, "src", "dem", <<Stmt("print", "")>>),
    Run(32, 0, "print_src", {}),
    With(34, 0, "dem_src", "dem", <<Stmt("read", "dtm_pre_arr")>>),
    Run(34, 0, "use", {"dtm_pre_arr"}),
    Run(36, 0, "use", {"dtm_pre_arr"}),
    With(38, 0, "dem_src", "dem", <<Stmt("profile", "lidar_dem_meta")>>),
    Run(38, 0, "use", {"lidar_dem_meta"}),
    With(41, 0, "dem_src", "dem",
         <<Stmt("read", "dem_data"), Stmt("profile", "dem_meta")>>),
    Run(43, 2, "task2", {"dem_data"}),
    Run(44, 0, "minmax", {"dem_feet"}),
    Run(46, 0, "masked_where", {"dem_feet"}),
    With(48, 3, "dem_src", "dem",
         <<Stmt("read_masked", "dem_data"), Stmt("profile", "dem_meta")>>),
    Run(48, 3, "task3", {"dem_data"}),
    Run(49, 0, "use", {"dem_feet_ma"}),
    Run(51, 0, "class_bins", {"dem_feet"}),
    Run(52, 0, "digitize", {"dem_feet", "class_bins"}),
    Run(53, 0, "unique", {"dem_waterline"}),
    Run(54, 0, "use", {"dem_waterline"}),
    Run(57, 4, "task4", {"dem_waterline"}),
    Run(58, 4, "use", {"water_mask"}),
    Run(60, 5, "task5", {"dem_feet", "water_mask"}),
    Run(61, 5, "minmax", {"water_masked_DEM"}),
    Run(62, 5, "use", {"water_masked_DEM"}),
    Run(64, 0, "get_data", {}),
    With(66, 0, "naip_prefire_src", "naip_pre", <<Stmt("read_all", "naip_pre_fire")>>),
    Run(66, 0, "use", {"naip_pre_fire"}),
    With(68, 6, "naip_prefire_src", "naip_pre", <<Stmt("profile", "naip_pre_meta")>>),
    Run(70, 0, "use", {"naip_pre_fire"}),
    Run(71, 0, "use", {"naip_pre_fire"}),
    Run(73, 0, "select_bands", {"naip_pre_fire"}),
    Run(73, 6, "task6", {"NIR_pre_fire", "red_pre_fire"}),
    Run(74, 6, "use", {"NDVI_pre"}),
    With(76, 7, "naip_postfire_src", "naip_post", <<Stmt("read_all", "naip_post_fire")>>),
    Run(76, 7, "use", {"naip_post_fire"}),
    Run(78, 8, "task8_post", {"naip_post_fire"}),
    Run(78, 8, "task8_diff", {"NDVI_post", "NDVI_pre"}) >>

Finished == pc.cell > Len(Program)

Entry == Program[pc.cell]

\* the entry is a Task the student left blank
Blank(e) == e.task # 0 /\ tasks = "blank"

RECURSIVE NextCell(_)
\* the first entry after i of another notebook cell
NextCell(i) ==
    IF i + 1 > Len(Program) \/ Program[i + 1].cell # Program[pc.cell].cell THEN i + 1
    ELSE NextCell(i + 1)

Step(k) == <<"body1", "body2">>[k]

StepNo == CHOOSE k \in 1..2 : Step(k) = pc.step

Start(i) ==
    [cell |-> i,
     step |-> IF i <= Len(Program) /\ Program[i].kind = "with" /\ ~Blank(Program[i])
              THEN "enter" ELSE "run"]

Continue == pc' = Start(pc.cell + 1)

\* the cell stops with an exception
Abandon(what) == Raise(Entry.cell, what) /\ pc' = Start(NextCell(pc.cell))

Init ==
    /\ handles = <<>> /\ ns = <<>> /\ out = <<>> /\ err = {}
    /\ tasks \in {"blank", "done"}
    /\ \E dem \in SessionDemFiles, pre \in SessionPreImages :
          \E post \in {pre, OnDisk(Image(ImgCells + 1, 100, 200), "ok")} :
              /\ tasks = "blank" => post = pre
              /\ files = [dem |-> dem, naip_pre |-> pre, naip_post |-> post]
    /\ pc = Start(1)

\* a Task cell left blank holds comments only
BlankCell ==
    /\ ~Finished /\ pc.step = "run" /\ Blank(Entry)
    /\ Continue
    /\ UNCHANGED <<files, handles, ns, out, err, tasks>>

\* the files of the data set a get_data cell names
Dataset(cell) == IF cell = 2 THEN {"dem"} ELSE {"naip_pre", "naip_post"}

GetDataCellReplaces ==
    /\ ~Finished /\ pc.step = "run" /\ Entry.kind = "get_data"
    /\ files' = [f \in DOMAIN files |->
                    IF f \in Dataset(Entry.cell) /\ files[f].status \in {"absent", "corrupt"}
                    THEN [files[f] EXCEPT !.status = "ok"] ELSE files[f]]
    /\ out' = IF \E f \in Dataset(Entry.cell) : files[f].status \in {"absent", "corrupt"}
              THEN Show("downloading", Entry.cell) ELSE out
    /\ Continue
    /\ UNCHANGED <<handles, ns, err, tasks>>

\* et.data.get_data(...): a data set that is not on disk is downloaded and
\* announced; files that are there are left as they are
GetDataCell ==
    /\ ~Finished /\ pc.step = "run" /\ Entry.kind = "get_data"
    /\ files' = [f \in DOMAIN files |->
                    IF f \in Dataset(Entry.cell) /\ files[f].status = "absent"
                    THEN [files[f] EXCEPT !.status = "ok"] ELSE files[f]]
    /\ out' = IF \E f \in Dataset(Entry.cell) : files[f].status = "absent"
              THEN Show("downloading", Entry.cell) ELSE out
    /\ Continue
    /\ UNCHANGED <<handles, ns, err, tasks>>

\* with rio.open(path) as handle:
EnterScope ==
    /\ ~Finished /\ pc.step = "enter"
    /\ IF files[Entry.file].status \in {"missing", "absent"}
       THEN /\ Abandon("RasterioIOError")
            /\ UNCHANGED handles
       ELSE /\ handles' = (Entry.handle :> "open") @@ handles
            /\ pc' = [cell |-> pc.cell, step |-> Step(1)]
            /\ UNCHANGED err
    /\ UNCHANGED <<files, ns, out, tasks>>

\* one statement of the with block: read(1), read(1, masked=True), read(),
\* profile or print(src), through the open handle
ScopeBody ==
    /\ ~Finished /\ pc.step \in {Step(1), Step(2)}
    /\ LET st == Entry.body[StepNo]
           f  == files[Entry.file]
           fails == st.op \in {"read", "read_masked", "read_all"} /\ f.status = "corrupt"
           next == IF StepNo < Len(Entry.body) THEN Step(StepNo + 1) ELSE "exit"
       IN  /\ handles[Entry.handle] = "open"
           /\ pc' = [cell |-> pc.cell, step |-> IF fails THEN "exit_error" ELSE next]
           /\ ns' = IF fails \/ st.op = "print" THEN ns
                    ELSE IF st.op = "read" THEN Bind(st.target, ReadBand(f, 1, FALSE))
                    ELSE IF st.op = "read_masked" THEN Bind(st.target, ReadBand(f, 1, TRUE))
                    ELSE IF st.op = "read_all" THEN Bind(st.target, ReadAll(f))
                    ELSE Bind(st.target, Profile(f))
           /\ out' = IF st.op = "print" THEN Show("print_inside", handles[Entry.handle])
                     ELSE out
    /\ UNCHANGED <<files, handles, err, tasks>>

ExitScopeKeepsOpen ==
    /\ ~Finished /\ pc.step \in {"exit", "exit_error"}
    /\ IF pc.step = "exit" THEN Continue /\ UNCHANGED err
       ELSE Abandon("RasterioIOError")
    /\ UNCHANGED <<files, handles, ns, out, tasks>>

ExitScopeLeaksOnError ==
    /\ ~Finished /\ pc.step \in {"exit", "exit_error"}
    /\ handles' = IF pc.step = "exit" THEN [handles EXCEPT ![Entry.handle] = "closed"]
                  ELSE handles
    /\ IF pc.step = "exit" THEN Continue /\ UNCHANGED err
       ELSE Abandon("RasterioIOError")
    /\ UNCHANGED <<files, ns, out, tasks>>

\* the end of the with block: the context manager closes the handle, after
\* the last statement or when a statement raised, and an exception goes on
ExitScope ==
    /\ ~Finished /\ pc.step \in {"exit", "exit_error"}
    /\ handles' = [handles EXCEPT ![Entry.handle] = "closed"]
    /\ IF pc.step = "exit" THEN Continue /\ UNCHANGED err
       ELSE Abandon("RasterioIOError")
    /\ UNCHANGED <<files, ns, out, tasks>>

\* print(src) outside the with block: the reader shows as closed
PrintSrc ==
    /\ ~Finished /\ pc.step = "run" /\ Entry.kind = "print_src"
    /\ IF "src" \in DOMAIN handles
       THEN out' = Show("print_outside", handles.src) /\ Continue /\ UNCHANGED err
       ELSE Abandon("NameError") /\ UNCHANGED out
    /\ UNCHANGED <<files, handles, ns, tasks>>

Runs(kinds) == ~Finished /\ pc.step = "run" /\ ~Blank(Entry) /\ Entry.kind \in kinds

Known == Entry.reads \subseteq DOMAIN ns

NameErrorCellGoesOn ==
    /\ Runs({"use", "minmax", "masked_where", "class_bins", "digitize", "unique",
             "select_bands", "task2", "task3", "task4", "task5", "task6",
             "task8_post", "task8_diff"})
    /\ ~Known
    /\ Continue
    /\ UNCHANGED <<files, handles, ns, out, err, tasks>>

\* a cell that reads a name no cell has assigned
NameErrorCell ==
    /\ Runs({"use", "minmax", "masked_where", "class_bins", "digitize", "unique",
             "select_bands", "task2", "task3", "task4", "task5", "task6",
             "task8_post", "task8_diff"})
    /\ ~Known
    /\ Abandon("NameError")
    /\ UNCHANGED <<files, handles, ns, out, tasks>>

\* a cell that displays or plots a value
UseCell ==
    /\ Runs({"use"}) /\ Known
    /\ Continue
    /\ UNCHANGED <<files, handles, ns, out, err, tasks>>

\* print(a.min(), a.max())
MinMaxCell ==
    /\ Runs({"minmax"}) /\ Known
    /\ out' = ShowMinMax(ns[CHOOSE n \in Entry.reads : TRUE])
    /\ Continue
    /\ UNCHANGED <<files, handles, ns, err, tasks>>

\* Task 2: dem_feet = dem_data * 3.28084
Task2Cell ==
    /\ Runs({"task2"}) /\ Known
    /\ ns' = Bind("dem_feet", Convert(ns.dem_data))
    /\ Continue
    /\ UNCHANGED <<files, handles, out, err, tasks>>

MaskedWhereCellAnyNegative ==
    /\ Runs({"masked_where"}) /\ Known
    /\ ns' = Bind("dem_feet_ma",
                  MaskedWhere([i \in Cells(ns.dem_feet) |-> ns.dem_feet.data[i] < 0],
                              ns.dem_feet))
    /\ Continue
    /\ UNCHANGED <<files, handles, out, err, tasks>>

MaskedWhereCellInPlace ==
    /\ Runs({"masked_where"}) /\ Known
    /\ LET ma == MaskedWhere([i \in Cells(ns.dem_feet) |-> ns.dem_feet.data[i] = NegInf],
                             ns.dem_feet)
       IN  ns' = ("dem_feet_ma" :> ma) @@ ("dem_feet" :> ma) @@ ns
    /\ Continue
    /\ UNCHANGED <<files, handles, out, err, tasks>>

\* dem_feet_ma = np.ma.masked_where(dem_feet == -np.inf, dem_feet, copy=True)
MaskedWhereCell ==
    /\ Runs({"masked_where"}) /\ Known
    /\ ns' = Bind("dem_feet_ma",
                  MaskedWhere([i \in Cells(ns.dem_feet) |-> ns.dem_feet.data[i] = NegInf],
                              ns.dem_feet))
    /\ Continue
    /\ UNCHANGED <<files, handles, out, err, tasks>>

\* Task 3: dem_feet_ma from the masked read, and its min and max
Task3Cell ==
    /\ Runs({"task3"}) /\ Known
    /\ ns' = Bind("dem_feet_ma", Convert(ns.dem_data))
    /\ out' = ShowMinMax(Convert(ns.dem_data))
    /\ Continue
    /\ UNCHANGED <<files, handles, err, tasks>>

\* class_bins = [dem_feet.min(), 5642, np.inf]
ClassBinsCell ==
    /\ Runs({"class_bins"}) /\ Known
    /\ ns' = Bind("class_bins", <<MaMin(ns.dem_feet), Waterline * FactorDen, PosInf>>)
    /\ Continue
    /\ UNCHANGED <<files, handles, out, err, tasks>>

\* dem_waterline = np.digitize(dem_feet, class_bins)
DigitizeCell ==
    /\ Runs({"digitize"}) /\ Known
    /\ IF Monotonicity(ns.class_bins) = 0
       THEN Abandon("ValueError") /\ UNCHANGED ns
       ELSE /\ ns' = Bind("dem_waterline", Digitize(ns.dem_feet, ns.class_bins))
            /\ Continue /\ UNCHANGED err
    /\ UNCHANGED <<files, handles, out, tasks>>

\* print(np.unique(dem_waterline))
UniqueCell ==
    /\ Runs({"unique"}) /\ Known
    /\ out' = Show("unique", Unique(ns.dem_waterline))
    /\ Continue
    /\ UNCHANGED <<files, handles, ns, err, tasks>>

\* Task 4: water_mask
Task4Cell ==
    /\ Runs({"task4"}) /\ Known
    /\ ns' = Bind("water_mask", MakeMask(ns.dem_waterline, 1))
    /\ Continue
    /\ UNCHANGED <<files, handles, out, err, tasks>>

\* Task 5: water_masked_DEM
Task5Cell ==
    /\ Runs({"task5"}) /\ Known
    /\ ns' = Bind("water_masked_DEM", MaMul(ns.dem_feet, ns.water_mask))
    /\ Continue
    /\ UNCHANGED <<files, handles, out, err, tasks>>

\* red_pre_fire = naip_pre_fire[0]; NIR_pre_fire = naip_pre_fire[3]
SelectBandsCell ==
    /\ Runs({"select_bands"}) /\ Known
    /\ ns' = ("red_pre_fire" :> Band(ns.naip_pre_fire, 0)) @@
             ("NIR_pre_fire" :> Band(ns.naip_pre_fire, 3)) @@ ns
    /\ Continue
    /\ UNCHANGED <<files, handles, out, err, tasks>>

\* Task 6: NDVI_pre
Task6Cell ==
    /\ Runs({"task6"}) /\ Known
    /\ ns' = Bind("NDVI_pre", Ndvi(ns.NIR_pre_fire, ns.red_pre_fire))
    /\ Continue
    /\ UNCHANGED <<files, handles, out, err, tasks>>

\* Task 8: NDVI_post
Task8PostCell ==
    /\ Runs({"task8_post"}) /\ Known
    /\ ns' = Bind("NDVI_post", Ndvi(Band(ns.naip_post_fire, 3), Band(ns.naip_post_fire, 0)))
    /\ Continue
    /\ UNCHANGED <<files, handles, out, err, tasks>>

\* Task 8: the change in NDVI
Task8DiffCell ==
    /\ Runs({"task8_diff"}) /\ Known
    /\ IF Broadcastable(ns.NDVI_post, ns.NDVI_pre)
       THEN /\ ns' = Bind("NDVI_change", MaSub(ns.NDVI_post, ns.NDVI_pre))
            /\ Continue /\ UNCHANGED err
       ELSE Abandon("ValueError") /\ UNCHANGED ns
    /\ UNCHANGED <<files, handles, out, tasks>>

Next ==
    \/ BlankCell
    \/ GetDataCell
    \/ EnterScope
    \/ ScopeBody
    \/ ExitScope
    \/ PrintSrc
    \/ NameErrorCell
    \/ UseCell
    \/ MinMaxCell
    \/ Task2Cell
    \/ MaskedWhereCell
    \/ Task3Cell
    \/ ClassBinsCell
    \/ DigitizeCell
    \/ UniqueCell
    \/ Task4Cell
    \/ Task5Cell
    \/ SelectBandsCell
    \/ Task6Cell
    \/ Task8PostCell
    \/ Task8DiffCell

Spec == Init /\ [][Next]_vars

----------------------------------------------------------------------------
(* Claims about the session *)

InScope == pc.step \in {"body1", "body2", "exit", "exit_error"}

AllClosed == \A h \in DOMAIN handles : handles[h] = "closed"

Raised(cell, what) == [cell |-> cell, error |-> what] \in err

\* the session is past the cell print(src) that follows the with block
PastPrintSrc == \E i \in 1..Len(Program) : Program[i].kind = "print_src" /\ pc.cell > i

\* every array and metadata record a scope stored is still what was read
ReadsKept ==
    /\ Defined("dtm_pre_arr") => ns.dtm_pre_arr.data = files.dem.bands[1]
    /\ Defined("lidar_dem_meta") => ns.lidar_dem_meta = Profile(files.dem)
    /\ Defined("naip_pre_fire") => ns.naip_pre_fire.bands = files.naip_pre.bands

\* C8 as stated: a scoped read releases its handle when the scope is left, on
\* the normal and on every error path, any later use of the handle outside
\* the scope fails, and what was read inside stays usable.
C8_AsStated ==
    /\ ~InScope => AllClosed
    /\ (PastPrintSrc /\ "src" \in DOMAIN handles) =>
          (\E e \in err : e.cell = 32) /\ "print_outside" \notin DOMAIN out
    /\ ~InScope => ReadsKept

\* C8 amended: a scoped read releases its handle when the scope is left, on
\* the normal and on every error path; the use the notebook makes of a handle
\* outside its scope, print(src), does not fail but shows a closed reader;
\* and what was read inside stays usable after the handle is closed.
C8_ScopedRead ==
    /\ ~InScope => AllClosed
    /\ InScope => \A h \in DOMAIN handles : (handles[h] = "open") <=> (h = Entry.handle)
    /\ (PastPrintSrc /\ "src" \in DOMAIN handles) =>
          /\ out.print_outside = "closed"
          /\ ~\E e \in err : e.cell = 32
    /\ "print_inside" \in DOMAIN out => out.print_inside = "open"
    /\ ~InScope => ReadsKept
    /\ \A e \in err :
          (e.error = "NameError" /\ e.cell \in {6, 7, 9, 11, 12, 17, 19, 22, 24, 34, 36, 38})
              => files.dem.status # "ok"

C8_Witness ==
    /\ Finished /\ AllClosed
    /\ files.dem.status = "ok" /\ files.naip_pre.status = "corrupt"
    /\ Raised(66, "RasterioIOError") /\ handles.naip_prefire_src = "closed"
    /\ out.print_outside = "closed"
    /\ Defined("dtm_pre_arr") /\ Defined("lidar_dem_meta") /\ ~Defined("naip_pre_fire")

----------------------------------------------------------------------------
(* Claims about differencing rasters of different shape *)

\* the change in NDVI has been attempted on the two index rasters
DiffTried == ~At("diff") /\ Defined("NDVI_pre") /\ Defined("NDVI_post")

----------------------------------------------------------------------------
(* Claims about the files *)

\* C12 as stated: no cell changes a file or writes to disk: after any
\* sequence of cells the files are what they were before it.
C12_AsStated == [][files' = files]_vars

\* C12 amended: the only cells that write to disk are the get_data cells,
\* which download a data set that is not there; a file that is on disk is
\* never changed, by them or by any read, transform or plot.
C12_FilesKept ==
    [][(files' # files) =>
          /\ Entry.kind = "get_data"
          /\ \A f \in DOMAIN files :
                (files[f].status # "absent" \/ f \notin Dataset(Entry.cell))
                    => files'[f] = files[f]]_vars

C12_Witness ==
    /\ Finished /\ tasks = "done"
    /\ "downloading" \in DOMAIN out
    /\ files.dem.status = "ok" /\ files.naip_pre.status = "ok"
    /\ Defined("water_masked_DEM") /\ Defined("NDVI_change")

----------------------------------------------------------------------------
(* Claims about the DEM read without a mask *)

\* the cell of the given kind is the one that has just run
JustRan(kind) ==
    /\ pc.cell > 1 /\ Program[pc.cell - 1].kind = kind
    /\ pc.step \in {"enter", "run"}

\* cell i of the DEM file holds the no-data sentinel
IsNodata(i) == files.dem.bands[1][i] = files.dem.nodata

Finite(x) == x # NegInf /\ x # PosInf /\ x # NaN

\* C13 as stated: after the conversion of the unmasked read and
\* masked_where(dem_feet == -inf, dem_feet), every cell that held the no-data
\* sentinel in the file is excluded from dem_feet_ma and every other cell is
\* a finite elevation of the data, whatever the sentinel.
C13_AsStated ==
    (JustRan("masked_where") /\ Defined("dem_feet_ma")) =>
        \A i \in Cells(ns.dem_feet_ma) :
            /\ IsNodata(i) => ns.dem_feet_ma.mask[i]
            /\ ~ns.dem_feet_ma.mask[i] =>
                  Finite(ns.dem_feet_ma.data[i]) /\ ~IsNodata(i)

\* C13 amended: dem_feet_ma excludes exactly the cells whose value in feet
\* is -infinity, so a no-data cell is excluded if and only if scaling the
\* sentinel overflows to -infinity; when it does, every non-excluded cell is
\* a finite elevation of the data, and when it does not the scaled sentinel
\* stays among the non-excluded cells.
C13_MaskedWhereNegInf ==
    (JustRan("masked_where") /\ Defined("dem_feet_ma")) =>
        \A i \in Cells(ns.dem_feet_ma) :
            /\ IsScaled(files.dem.bands[1][i], ns.dem_feet_ma.data[i])
            /\ ns.dem_feet_ma.mask[i] <=>
                  (IsNodata(i) /\ IsScaled(files.dem.nodata, NegInf))
            /\ (IsScaled(files.dem.nodata, NegInf) /\ ~ns.dem_feet_ma.mask[i]) =>
                  Finite(ns.dem_feet_ma.data[i]) /\ ~IsNodata(i)

\* a file with the sentinel -9999 in its first cell and data in the others
C13_Witness ==
    /\ JustRan("masked_where") /\ Defined("dem_feet_ma")
    /\ files.dem.nodata = 0 - 9999 /\ IsNodata(1) /\ ~IsNodata(2)
    /\ ~ns.dem_feet_ma.mask[1]
    /\ ns.dem_feet_ma.data[1] = (0 - 9999) * FactorNum

\* cell i of the DEM file is a data cell below the water line
IsWater(i) ==
    ~IsNodata(i) /\ files.dem.bands[1][i] * FactorNum < Waterline * FactorDen

\* cell i of the DEM file is a data cell at or above the water line
IsLand(i) ==
    ~IsNodata(i) /\ files.dem.bands[1][i] * FactorNum >= Waterline * FactorDen

\* C14: with class_bins = [dem_feet.min(), 5642, inf], a cell of
\* dem_waterline has label 0 if and only if it was no-data in the source
\* raster, label 1 if it is data below 5642 feet and label 2 if it is data
\* at or above 5642 feet; no data cell has label 0, and a raster that holds
\* the three kinds of cell has exactly the labels 0, 1 and 2.
C14_WaterlineLabels ==
    (JustRan("digitize") /\ Defined("dem_waterline")) =>
        LET label == ns.dem_waterline.data
            cells == 1..Len(label)
        IN  /\ \A i \in cells :
                  /\ label[i] = 0 <=> IsNodata(i)
                  /\ IsWater(i) => label[i] = 1
                  /\ IsLand(i) => label[i] = 2
            /\ ((\E i \in cells : IsNodata(i)) /\ (\E i \in cells : IsWater(i))
                    /\ (\E i \in cells : IsLand(i)))
                  => Unique(ns.dem_waterline) = {0, 1, 2}

----------------------------------------------------------------------------
(* Claims about the names the cells read *)

\* every file is readable once its data set has been fetched
Readable == \A f \in DOMAIN files : files[f].status \in {"ok", "absent"}

\* the cells that stopped on a name no cell had assigned
NameErrors == {e.cell : e \in {x \in err : x.error = "NameError"}}

\* the cells that read dem_feet or a name derived from it
DemFeetCells == {44, 46, 49, 51, 52, 53, 54}

\* C15 as stated: running the code cells once each from top to bottom, every
\* name a cell reads was assigned by an earlier cell: no cell stops on an
\* undefined name.
C15_AsStated == Readable => NameErrors = {}

\* C15 amended: in the notebook as it is, with the Task cells blank, the
\* cells that read dem_feet or a name derived from it (dem_feet_ma,
\* class_bins, dem_waterline) stop on an undefined name, each of them, and
\* no other cell does; once the Task cells are answered a cell stops on an
\* undefined name only after np.digitize has failed.
C15_UndefinedNames ==
    Readable =>
        /\ tasks = "blank" => NameErrors \subseteq DemFeetCells
        /\ (tasks = "blank" /\ Finished) => NameErrors = DemFeetCells
        /\ (tasks = "blank" /\ Finished) =>
              DOMAIN ns = {"dtm_pre_arr", "lidar_dem_im", "lidar_dem_meta", "dem_data",
                           "dem_meta", "naip_pre_fire", "red_pre_fire", "NIR_pre_fire"}
        /\ (tasks = "done" /\ NameErrors # {}) =>
              Raised(52, "ValueError") /\ NameErrors \subseteq {53, 54, 57, 58, 60, 61, 62}

C15_Witness ==
    /\ Readable /\ tasks = "blank" /\ Finished
    /\ Raised(44, "NameError") /\ Raised(52, "NameError")
    /\ ~Defined("dem_feet") /\ Defined("dem_data") /\ Defined("NIR_pre_fire")

----------------------------------------------------------------------------
(* Claims about what the masking leaves alone *)

\* dem_feet is the product of the unmasked read: every cell of the file
\* scaled, the no-data cells too, and no cell excluded
DemFeetUnmasked ==
    /\ Cells(ns.dem_feet) = 1..Len(files.dem.bands[1])
    /\ \A i \in Cells(ns.dem_feet) :
          /\ ~ns.dem_feet.mask[i]
          /\ IsScaled(files.dem.bands[1][i], ns.dem_feet.data[i])

\* C16: building dem_feet_ma leaves dem_feet as it was, with the same values
\* and no cell excluded, so class_bins[0] is the minimum over all cells of
\* dem_feet, the scaled no-data sentinel among them, and np.digitize labels
\* every cell of dem_feet, none with the label 0.
C16_DemFeetUnchanged ==
    /\ (Defined("dem_feet_ma") /\ Defined("dem_feet")) => DemFeetUnmasked
    /\ Defined("class_bins") =>
          /\ \A i \in Cells(ns.dem_feet) : ns.class_bins[1] <= ns.dem_feet.data[i]
          /\ \E i \in Cells(ns.dem_feet) : ns.class_bins[1] = ns.dem_feet.data[i]
          /\ (\E i \in Cells(ns.dem_feet) : IsNodata(i)) =>
                IsScaled(files.dem.nodata, ns.class_bins[1])
    /\ Defined("dem_waterline") =>
          /\ Cells(ns.dem_waterline) = Cells(ns.dem_feet)
          /\ \A i \in Cells(ns.dem_feet) :
                /\ ns.dem_waterline.data[i] \in {1, 2}
                /\ ns.dem_waterline.data[i] = 1 <=>
                      ns.dem_feet.data[i] < Waterline * FactorDen

\* the sentinel overflowed and was excluded from dem_feet_ma, and the bins
\* and the labels are still those of the unmasked dem_feet
C16_Witness ==
    /\ JustRan("digitize") /\ Defined("dem_waterline")
    /\ IsNodata(1) /\ ~IsNodata(2)
    /\ ns.dem_feet_ma.mask[1] /\ ~ns.dem_feet.mask[1]
    /\ ns.dem_feet.data[1] = NegInf
    /\ ns.class_bins[1] = NegInf
    /\ ns.dem_waterline.data[1] = 1

----------------------------------------------------------------------------
(* Claims about the open handles *)

OpenHandles == {h \in DOMAIN handles : handles[h] = "open"}

\* C17: at every point of the session at most one file handle is open; a
\* with block is entered only when no handle is open and leaves none open,
\* and no handle is open while a cell outside a with block (conversion,
\* masking, reclassification, plotting, NDVI, differencing) runs.
C17_AtMostOneHandle ==
    /\ Cardinality(OpenHandles) <= 1
    /\ pc.step \in {"enter", "run"} => OpenHandles = {}
    /\ Finished => OpenHandles = {}

\* inside the scope of the image read, with the earlier handles closed
C17_Witness ==
    /\ ~Finished /\ pc.step = "body1" /\ Entry.handle = "naip_prefire_src"
    /\ OpenHandles = {"naip_prefire_src"}
    /\ {"dem_src", "src"} \subseteq DOMAIN handles
    /\ handles.dem_src = "closed" /\ handles.src = "closed"
    /\ Defined("dem_waterline")

====
